---- MODULE Spec2Model ----
(***************************************************************************)
(* Maestro admission engine (MainRoutine) with its ephemeral TTLMap store, *)
(* pressure snapshot, decision envelopes and the circuit distributor.      *)
(*                                                                         *)
(* Time is an integer clock (Date.now()).  Pressure readings are integers  *)
(* in tenths (9 is 0.9), on which the comparison  avg > 0.9  of the source *)
(* agrees with  sum > 27.  A runtime state is a JavaScript object: the     *)
(* store and every running admit() call hold REFERENCES to it, so objects  *)
(* live in a heap (objs) and the store holds a slot number.                *)
(***************************************************************************)
EXTENDS Integers, Sequences, FiniteSets, TLC

(* ----------------------------- bounds ---------------------------------- *)
StateTTL == 1
MaxBudget == 2
MaxRetry == 1
MaxDepth == 2

\* the clock runs long enough for an entry to expire
MaxTime == StateTTL + 1

(* --------------------------- configuration ----------------------------- *)
TaskIds == {"t1", "t2"}

NoIntent == "undefined"

Intents == {NoIntent, "critical", "blocked"}

\* the metadata of the second task id, which plays the other tenant of the store
OtherMeta == {[spawnBudget |-> 1, maxRetryDepth |-> 1, intent |-> NoIntent]}

\* the metadata of the first task id: every budget and retry limit without an
\* intent, and the largest of each under every intent
MetaSet ==
  [spawnBudget : 0..MaxBudget, maxRetryDepth : 0..MaxRetry, intent : {NoIntent}]
    \cup [spawnBudget : {MaxBudget}, maxRetryDepth : {MaxRetry}, intent : Intents]

\* a store that holds one entry fewer than there are task ids, so that the
\* admission of one id can evict the entry of another
SmallStore == Cardinality(TaskIds) - 1

RegistryIds == {"default", "fast", "slow"}

NoDest == "null"

defaultEnvelope ==
  [id |-> "default-env", allowDrop |-> TRUE, allowRetry |-> TRUE,
   allowCooperate |-> TRUE, allowHistoryInfluence |-> TRUE,
   eligibleCandidates |-> <<"default", "fast", "slow">>]

criticalEnvelope ==
  [id |-> "critical-env", allowDrop |-> FALSE, allowRetry |-> TRUE,
   allowCooperate |-> FALSE, allowHistoryInfluence |-> FALSE,
   eligibleCandidates |-> <<"fast">>]

blockedEnvelope ==
  [id |-> "blocked-env", allowDrop |-> TRUE, allowRetry |-> FALSE,
   allowCooperate |-> FALSE, allowHistoryInfluence |-> FALSE,
   eligibleCandidates |-> <<>>]

\* an envelope that lists one destination, which no intent is routed to
narrowEnvelope ==
  [id |-> "narrow-env", allowDrop |-> TRUE, allowRetry |-> TRUE,
   allowCooperate |-> FALSE, allowHistoryInfluence |-> FALSE,
   eligibleCandidates |-> <<"slow">>]

\* an envelope of a task class whose retries are disabled
noRetryEnvelope ==
  [id |-> "noretry-env", allowDrop |-> TRUE, allowRetry |-> FALSE,
   allowCooperate |-> TRUE, allowHistoryInfluence |-> TRUE,
   eligibleCandidates |-> <<"default", "fast">>]

EnvelopeMap ==
  [critical |-> criticalEnvelope, blocked |-> blockedEnvelope, narrow |-> narrowEnvelope,
   noretry |-> noRetryEnvelope]

\* the intents of the tasks of an engine that is observed by a decision handler
ObservedIntents == Intents \cup {"narrow"}

IntentMap == [critical |-> "fast"]

DefaultSubRoutineId == "default"

\* raw readings of the three getters, in tenths; -3 and 12 are out of range
PressureInputs == { <<-3, 5, 12>>, <<9, 9, 9>>, <<10, 9, 9>>, <<10, 10, 10>> }

Slots == 1..(MaxDepth + 1)

NoRef == 0

FreeObj == [spawnCount |-> -1, retryDepth |-> -1, lastAttemptAt |-> -1]

NoDepth == -1

\* now, store, objs, stack: the engine; meta, maxTrackedTasks, onDecision: its
\*   inputs and configuration (onDecision: a decision handler is configured)
\* last: what the most recent engine call returned
\* events: the decision events the most recent engine step emitted
\* run, exhaustedUntil: history of the calls, read by the properties only
\* ttlMap, ttlMaxSize: a TTLMap used on its own, and its configured capacity
\* ttlOp: the most recent call made on it
\* found: what the admit that is the most recent call found stored for its task
\* build: the arguments given to createMainRoutine and composeStrategies, and
\*   what the construction and the composed strategy's select came to
\* decay: two elapsed times given to decayWeight and the weights it returned
\* prio: a context given to the priority-based strategy and what it selected
\* tracker: a penalty tracker used on its own, with the most recent call on it
\* seen: what getRuntimeState of the task gives a decision handler that calls
\*   it when it is handed the event of the most recent admit
VARIABLES now, store, objs, stack, meta, maxTrackedTasks, onDecision, last, events,
          run, exhaustedUntil, ttlMap, ttlMaxSize, ttlOp, found, build,
          decay, prio, tracker, seen

vars == <<now, store, objs, stack, meta, maxTrackedTasks, onDecision, last, events,
          run, exhaustedUntil, ttlMap, ttlMaxSize, ttlOp, found, build,
          decay, prio, tracker, seen>>

\* the library functions and the penalty tracker, which the engine does not use
libVars == <<decay, prio, tracker>>

(* ------------------------------ TTLMap --------------------------------- *)
\* the JavaScript Map `store`: a sequence of entries in insertion order
IndexOfKey(s, key) ==
  IF \E i \in 1..Len(s) : s[i].key = key
    THEN CHOOSE i \in 1..Len(s) : s[i].key = key
    ELSE 0

RemoveAt(s, i) == SubSeq(s, 1, i - 1) \o SubSeq(s, i + 1, Len(s))

MapDelete(s, key) ==
  LET i == IndexOfKey(s, key) IN IF i = 0 THEN s ELSE RemoveAt(s, i)

MapSet(s, key, e) ==
  LET i == IndexOfKey(s, key) IN IF i = 0 THEN Append(s, e) ELSE [s EXCEPT ![i] = e]

\* get that leaves an expired entry in the store
TTLGetStoreKeepsExpired(s, key, t) == s

\* TTLMap.get: the store after the call (an expired entry is deleted)
TTLGetStore(s, key, t) ==
  LET i == IndexOfKey(s, key) IN
    IF i = 0 THEN s
    ELSE IF t > s[i].expiresAt THEN MapDelete(s, key) ELSE s

\* get with the expiry test off by one: an entry is gone at its expiry time
TTLGetValueExpiresEarly(s, key, t) ==
  LET i == IndexOfKey(s, key) IN
    IF i = 0 THEN NoRef
    ELSE IF t >= s[i].expiresAt THEN NoRef ELSE s[i].value

\* get without the expiry test
TTLGetValueIgnoresExpiry(s, key, t) ==
  LET i == IndexOfKey(s, key) IN IF i = 0 THEN NoRef ELSE s[i].value

\* TTLMap.get: the returned value (NoRef is undefined)
TTLGetValue(s, key, t) ==
  LET i == IndexOfKey(s, key) IN
    IF i = 0 THEN NoRef
    ELSE IF t > s[i].expiresAt THEN NoRef ELSE s[i].value

\* prune that also deletes the entries expiring at the time of the call
PruneAtExpiry(s, t) == SelectSeq(s, LAMBDA e : ~(t >= e.expiresAt))

\* TTLMap.prune: every expired entry is deleted
Prune(s, t) == SelectSeq(s, LAMBDA e : ~(t > e.expiresAt))

\* TTLMap.prune: the returned count, one for every entry deleted
PruneCount(s, t) == Cardinality({ i \in 1..Len(s) : t > s[i].expiresAt })

\* the number Infinity: above every timestamp, and unchanged by addition
Infinity == 99

\* Date.now() + ttl
expiryAfter(t, ttl) == IF ttl = Infinity THEN Infinity ELSE t + ttl

\* the entries evictOldest can pick: expiresAt < Infinity, the initial oldestExpiry
Evictable(s) == { j \in 1..Len(s) : s[j].expiresAt < Infinity }

\* TTLMap.evictOldest: first entry, in insertion order, of least expiresAt;
\* nothing is deleted when no entry expires before Infinity
EvictOldest(s) ==
  IF Evictable(s) = {} THEN s
  ELSE LET i == CHOOSE j \in Evictable(s) :
                  /\ \A k \in 1..Len(s) : s[j].expiresAt <= s[k].expiresAt
                  /\ \A k \in 1..(j - 1) : s[k].expiresAt > s[j].expiresAt
       IN RemoveAt(s, i)

\* set that evicts for every new key, also when the store has room
TTLSetAlwaysEvicts(s, maxSize, defaultTTL, key, value, t) ==
  LET s1 == IF IndexOfKey(s, key) = 0 THEN EvictOldest(s) ELSE s
  IN MapSet(s1, key, [key |-> key, value |-> value, expiresAt |-> expiryAfter(t, defaultTTL)])

\* set that evicts whenever the store is full, for a stored key too
TTLSetEvictsForStoredKey(s, maxSize, defaultTTL, key, value, t) ==
  LET s1 == IF Len(s) >= maxSize THEN EvictOldest(s) ELSE s
  IN MapSet(s1, key, [key |-> key, value |-> value, expiresAt |-> expiryAfter(t, defaultTTL)])

\* TTLMap.set; defaultTTL is the TTL in force (ttl ?? this.defaultTTL)
TTLSet(s, maxSize, defaultTTL, key, value, t) ==
  LET s1 == IF Len(s) >= maxSize /\ IndexOfKey(s, key) = 0 THEN EvictOldest(s) ELSE s
  IN MapSet(s1, key, [key |-> key, value |-> value, expiresAt |-> expiryAfter(t, defaultTTL)])

(* ----------------------------- Amigdala -------------------------------- *)
clamp(value) == IF value < 0 THEN 0 ELSE IF value > 10 THEN 10 ELSE value

snapshot(raw) ==
  [memory |-> clamp(raw[1]), queueDepth |-> clamp(raw[2]), spawnSaturation |-> clamp(raw[3])]

(* ------------------------- envelope resolver --------------------------- *)
\* property names every JavaScript object inherits from Object.prototype
ProtoKeys == {"toString", "constructor", "__proto__"}

\* what such a name yields: a function or the prototype object, with none of
\* the fields of an envelope
ProtoValue(key) == [inherited |-> key]

\* null
NoEnvelope == [inherited |-> "null"]

\* task.metadata.intent ?? ''
intentOrEmpty(intent) == IF intent = NoIntent THEN "" ELSE intent

\* EnvelopeResolver.resolve: frozen[intent] ?? null, a property lookup on a
\* plain object, which also finds inherited properties
envelopeResolverResolve(intent) ==
  IF intent \in DOMAIN EnvelopeMap THEN EnvelopeMap[intent]
  ELSE IF intent \in ProtoKeys THEN ProtoValue(intent)
  ELSE NoEnvelope

\* admit, step 1: envelopeResolver.resolve(intent ?? '') ?? defaultEnvelope
resolve(intent) ==
  LET e == envelopeResolverResolve(intentOrEmpty(intent))
  IN IF e = NoEnvelope THEN defaultEnvelope ELSE e

\* envelope.eligibleCandidates is defined
HasCandidates(envelope) == "eligibleCandidates" \in DOMAIN envelope

(* ------------------------ strategy, distributor ------------------------ *)
checkEligibility(md, rs) ==
  ~(rs.spawnCount >= md.spawnBudget) /\ ~(rs.retryDepth >= md.maxRetryDepth)

intentBasedSelect(md, rs) ==
  IF ~checkEligibility(md, rs) THEN NoDest
  ELSE IF md.intent # NoIntent /\ md.intent \in DOMAIN IntentMap
         THEN IntentMap[md.intent]
         ELSE DefaultSubRoutineId

\* select that hands every envelope, the empty one too, to the strategy
distributorSelectDelegatesAlways(md, envelope, rs, pressure) == intentBasedSelect(md, rs)

\* select that gives nothing for a retried task when the envelope has
\* allowRetry off
distributorSelectReadsAllowRetry(md, envelope, rs, pressure) ==
  IF Len(envelope.eligibleCandidates) = 0 THEN NoDest
  ELSE IF ~envelope.allowRetry /\ rs.retryDepth > 0 THEN NoDest
  ELSE intentBasedSelect(md, rs)

distributorSelect(md, envelope, rs, pressure) ==
  IF Len(envelope.eligibleCandidates) = 0 THEN NoDest
  ELSE intentBasedSelect(md, rs)

(* --------------------------- MainRoutine ------------------------------- *)
Live(s, key, t) == TTLGetValue(s, key, t) # NoRef

\* slots of task key referenced by the store or by a running admit() call
Referenced(s, st, key) ==
  {s[i].value : i \in {j \in 1..Len(s) : s[j].key = key}}
    \cup {st[i].ref : i \in {j \in 1..Len(st) : st[j].task = key}}

FreshSlot(s, st, key) == CHOOSE k \in Slots : k \notin Referenced(s, st, key) /\
                            \A j \in Slots : j < k => j \in Referenced(s, st, key)

\* garbage collection: an object nobody references is gone
Collect(o, s, st) ==
  [key \in TaskIds |-> [k \in Slots |->
      IF k \in Referenced(s, st, key) THEN o[key][k] ELSE FreeObj]]

\* a new state that already counts one spawn
initialRuntimeStateOne(t) == [spawnCount |-> 1, retryDepth |-> 0, lastAttemptAt |-> t]

initialRuntimeState(t) == [spawnCount |-> 0, retryDepth |-> 0, lastAttemptAt |-> t]

\* getOrCreateRuntimeState that takes up an expired entry again
getOrCreateRuntimeStateRevives(s, o, st, cap, taskId, t) ==
  LET existing == TTLGetValueIgnoresExpiry(s, taskId, t)
  IN IF existing # NoRef
       THEN [store |-> s, objs |-> o, ref |-> existing, created |-> FALSE]
       ELSE LET ref == FreshSlot(s, st, taskId)
            IN [store |-> TTLSet(s, cap, StateTTL, taskId, ref, t),
                objs |-> [o EXCEPT ![taskId][ref] = initialRuntimeState(t)],
                ref |-> ref, created |-> TRUE]

\* getOrCreateRuntimeState that stores the entry it found again
getOrCreateRuntimeStateTouches(s, o, st, cap, taskId, t) ==
  LET s1 == TTLGetStore(s, taskId, t)
      existing == TTLGetValue(s, taskId, t)
  IN IF existing # NoRef
       THEN [store |-> TTLSet(s1, cap, StateTTL, taskId, existing, t), objs |-> o,
             ref |-> existing, created |-> FALSE]
       ELSE LET ref == FreshSlot(s1, st, taskId)
            IN [store |-> TTLSet(s1, cap, StateTTL, taskId, ref, t),
                objs |-> [o EXCEPT ![taskId][ref] = initialRuntimeState(t)],
                ref |-> ref, created |-> TRUE]

\* getOrCreateRuntimeState: the store, the heap and the returned reference
getOrCreateRuntimeState(s, o, st, cap, taskId, t) ==
  LET s1 == TTLGetStore(s, taskId, t)
      existing == TTLGetValue(s, taskId, t)
  IN IF existing # NoRef
       THEN [store |-> s1, objs |-> o, ref |-> existing, created |-> FALSE]
       ELSE LET ref == FreshSlot(s1, st, taskId)
            IN [store |-> TTLSet(s1, cap, StateTTL, taskId, ref, t),
                objs |-> [o EXCEPT ![taskId][ref] = initialRuntimeState(t)],
                ref |-> ref, created |-> TRUE]

spawnBudgetExhausted(rs, md) == rs.spawnCount >= md.spawnBudget

\* the retry check with > for >=
retryDepthExhaustedStrict(rs, md) == rs.retryDepth > md.maxRetryDepth

retryDepthExhausted(rs, md) == rs.retryDepth >= md.maxRetryDepth

\* the drop threshold set above 0.9
avgPressureAboveThresholdLoose(p) == p.memory + p.queueDepth + p.spawnSaturation > 28

avgPressureAboveThreshold(p) == p.memory + p.queueDepth + p.spawnSaturation > 27

\* the drop gate without the allowDrop mask
shouldDropForPressureUnmasked(envelope, p) == avgPressureAboveThreshold(p)

shouldDropForPressure(envelope, p) == envelope.allowDrop /\ avgPressureAboveThreshold(p)

Drop(reason, rs) == [type |-> "drop", reason |-> reason, currentDepth |-> rs.retryDepth]

DispatchDecision == [type |-> "dispatch", reason |-> "none", currentDepth |-> NoDepth]

NoPressure == [memory |-> 0, queueDepth |-> 0, spawnSaturation |-> 0]

\* the call threw a TypeError instead of returning a decision
TypeError == [type |-> "TypeError", reason |-> "none", currentDepth |-> NoDepth]

\* admit with the retry check made before the spawn budget check
admitDecideRetryFirst(s, o, st, cap, taskId, md, raw, t) ==
  LET envelope == resolve(md.intent)
      pressure == snapshot(raw)
      g == getOrCreateRuntimeState(s, o, st, cap, taskId, t)
      rs == g.objs[taskId][g.ref]
      dest == distributorSelect(md, envelope, rs, pressure)
      decision ==
        IF retryDepthExhausted(rs, md) THEN Drop("retry_depth_exhausted", rs)
        ELSE IF spawnBudgetExhausted(rs, md) THEN Drop("spawn_budget_exhausted", rs)
        ELSE IF shouldDropForPressure(envelope, pressure) THEN Drop("pressure_exceeded", rs)
        ELSE IF dest = NoDest THEN Drop("spawn_budget_exhausted", rs)
        ELSE DispatchDecision
  IN [store |-> g.store, objs |-> g.objs, ref |-> g.ref, created |-> g.created,
      envelope |-> envelope, pressure |-> pressure, decision |-> decision,
      dest |-> IF decision.type = "dispatch" THEN dest ELSE NoDest]

\* admit that escalates a task whose retry depth is used up
admitDecideEscalates(s, o, st, cap, taskId, md, raw, t) ==
  LET envelope == resolve(md.intent)
      pressure == snapshot(raw)
      g == getOrCreateRuntimeState(s, o, st, cap, taskId, t)
      rs == g.objs[taskId][g.ref]
      dest == distributorSelect(md, envelope, rs, pressure)
      decision ==
        IF spawnBudgetExhausted(rs, md) THEN Drop("spawn_budget_exhausted", rs)
        ELSE IF retryDepthExhausted(rs, md)
          THEN [type |-> "escalate", reason |-> "none", currentDepth |-> rs.retryDepth]
        ELSE IF shouldDropForPressure(envelope, pressure) THEN Drop("pressure_exceeded", rs)
        ELSE IF dest = NoDest THEN Drop("spawn_budget_exhausted", rs)
        ELSE DispatchDecision
  IN [store |-> g.store, objs |-> g.objs, ref |-> g.ref, created |-> g.created,
      envelope |-> envelope, pressure |-> pressure, decision |-> decision,
      dest |-> IF decision.type = "dispatch" THEN dest ELSE NoDest]

\* admit that calls dispatch on the selected primary before its drop gates
admitDecideDispatchesFirst(s, o, st, cap, taskId, md, raw, t) ==
  LET envelope == resolve(md.intent)
      pressure == snapshot(raw)
      g == getOrCreateRuntimeState(s, o, st, cap, taskId, t)
      rs == g.objs[taskId][g.ref]
      dest == distributorSelect(md, envelope, rs, pressure)
      decision ==
        IF spawnBudgetExhausted(rs, md) THEN Drop("spawn_budget_exhausted", rs)
        ELSE IF retryDepthExhausted(rs, md) THEN Drop("retry_depth_exhausted", rs)
        ELSE IF shouldDropForPressure(envelope, pressure) THEN Drop("pressure_exceeded", rs)
        ELSE IF dest = NoDest THEN Drop("spawn_budget_exhausted", rs)
        ELSE DispatchDecision
  IN [store |-> g.store, objs |-> g.objs, ref |-> g.ref, created |-> g.created,
      envelope |-> envelope, pressure |-> pressure, decision |-> decision,
      dest |-> dest]

\* admit, steps 1 to 5: everything up to the call of group.primary.dispatch.
\* Reading envelope.eligibleCandidates.length of a value that has no
\* eligibleCandidates throws before anything else is done.
admitDecide(s, o, st, cap, taskId, md, raw, t) ==
  LET envelope == resolve(md.intent)
      pressure == snapshot(raw)
      g == getOrCreateRuntimeState(s, o, st, cap, taskId, t)
      rs == g.objs[taskId][g.ref]
      dest == distributorSelect(md, envelope, rs, pressure)
      decision ==
        IF spawnBudgetExhausted(rs, md) THEN Drop("spawn_budget_exhausted", rs)
        ELSE IF retryDepthExhausted(rs, md) THEN Drop("retry_depth_exhausted", rs)
        ELSE IF shouldDropForPressure(envelope, pressure) THEN Drop("pressure_exceeded", rs)
        ELSE IF dest = NoDest THEN Drop("spawn_budget_exhausted", rs)
        ELSE DispatchDecision
  IN IF ~HasCandidates(envelope)
       THEN [store |-> s, objs |-> o, ref |-> NoRef, created |-> FALSE,
             envelope |-> envelope, pressure |-> NoPressure, decision |-> TypeError,
             dest |-> NoDest]
       ELSE [store |-> g.store, objs |-> g.objs, ref |-> g.ref, created |-> g.created,
             envelope |-> envelope, pressure |-> pressure, decision |-> decision,
             dest |-> IF decision.type = "dispatch" THEN dest ELSE NoDest]

\* a dispatch counted twice
spawnCountAfterDispatchTwice(rs) == rs.spawnCount + 2

spawnCountAfterDispatch(rs) == rs.spawnCount + 1

\* step 7 with the engine inferring a retry from its own dispatch
admitUpdateCountsRetry(s, o, cap, taskId, ref, t) ==
  LET rs == o[taskId][ref]
      rs1 == [rs EXCEPT !.spawnCount = rs.spawnCount + 1, !.retryDepth = rs.retryDepth + 1,
                        !.lastAttemptAt = t]
  IN [store |-> TTLSet(s, cap, StateTTL, taskId, ref, t),
      objs |-> [o EXCEPT ![taskId][ref] = rs1]]

\* step 7 without the runtimeStates.set that renews the expiry
admitUpdateKeepsExpiry(s, o, cap, taskId, ref, t) ==
  LET rs == o[taskId][ref]
      rs1 == [rs EXCEPT !.spawnCount = spawnCountAfterDispatch(rs), !.lastAttemptAt = t]
  IN [store |-> s, objs |-> [o EXCEPT ![taskId][ref] = rs1]]

\* admit, step 7: runtimeState.spawnCount++, lastAttemptAt, runtimeStates.set
admitUpdate(s, o, cap, taskId, ref, t) ==
  LET rs == o[taskId][ref]
      rs1 == [rs EXCEPT !.spawnCount = spawnCountAfterDispatch(rs), !.lastAttemptAt = t]
  IN [store |-> TTLSet(s, cap, StateTTL, taskId, ref, t),
      objs |-> [o EXCEPT ![taskId][ref] = rs1]]

retryDepthAfterSignal(rs) == rs.retryDepth + 1

\* narrowing told with <= for <
envelopeNarrowedLoose(envelope) == Len(envelope.eligibleCandidates) <= Cardinality(RegistryIds)

\* admit, step 1: envelope.eligibleCandidates.length < registry.count()
envelopeNarrowed(envelope) == Len(envelope.eligibleCandidates) < Cardinality(RegistryIds)

\* emitDecision that reports dispatches only
emitDecisionOnDispatchOnly(handler, taskId, decision, envelope, raw, t) ==
  IF ~handler \/ decision.type # "dispatch" THEN <<>>
  ELSE << [taskId |-> taskId, decision |-> decision, envelopeId |-> envelope.id,
           envelopeNarrowed |-> Len(envelope.eligibleCandidates) < Cardinality(RegistryIds),
           eligibleCandidatesCount |-> Len(envelope.eligibleCandidates),
           pressure |-> snapshot(raw), timestamp |-> t] >>

\* emitDecision: the events handed to the decision handler (none without a
\* handler); raw is what the pressure source reads at the time of the emission
emitDecision(handler, taskId, decision, envelope, raw, t) ==
  IF ~handler THEN <<>>
  ELSE << [taskId |-> taskId, decision |-> decision, envelopeId |-> envelope.id,
           envelopeNarrowed |-> envelopeNarrowed(envelope),
           eligibleCandidatesCount |-> Len(envelope.eligibleCandidates),
           pressure |-> snapshot(raw), timestamp |-> t] >>

\* the readings the pressure source may give when an event is emitted: any,
\* the source being free to change after the snapshot of step 2 (without a
\* handler nothing is read)
EmitReadings(handler, raw) == IF handler THEN PressureInputs ELSE {raw}

(* ------------------------ history of the calls ------------------------- *)
\* an entry that get() would return at time t
LiveEntry(s, key, t) == \E i \in 1..Len(s) : s[i].key = key /\ t <= s[i].expiresAt

EntryOf(s, key) == s[CHOOSE i \in 1..Len(s) : s[i].key = key]

StateOf(s, o, key) == o[key][EntryOf(s, key).value]

\* the runtime state an admit of taskId would read now (a lost entry is fresh)
Eff(taskId) ==
  IF LiveEntry(store, taskId, now) THEN StateOf(store, objs, taskId)
  ELSE initialRuntimeState(now)

Min(a, b) == IF a < b THEN a ELSE b

Broken == -1

\* n: admissions in succession since the entry was created, all of them made
\*    with retry depth left, a non-empty eligible set and pressure at most 0.9;
\*    Broken once one of them was not; counted up to spawnBudget + 1, which
\*    stands for every larger number
\* d: dispatch invocations since the entry was created
ZeroRun == [n |-> 0, d |-> 0]

Qualifying(md, envelope, pressure, rs) ==
  /\ ~avgPressureAboveThreshold(pressure)
  /\ Len(envelope.eligibleCandidates) > 0
  /\ rs.retryDepth < md.maxRetryDepth

StepRun(r, md, qualifying, dispatched) ==
  [n |-> IF r.n = Broken \/ ~qualifying THEN Broken ELSE Min(r.n + 1, md.spawnBudget + 1),
   d |-> r.d + (IF dispatched THEN 1 ELSE 0)]

NormRun(r, s, t) == [u \in TaskIds |-> IF LiveEntry(s, u, t) THEN r[u] ELSE ZeroRun]

\* the expiry time of the entry of u last seen with its spawn budget used up,
\* kept after the entry is gone until that time has passed or u is admitted again
NormHold(h, s, o, t, l) ==
  [u \in TaskIds |->
     IF LiveEntry(s, u, t) /\ StateOf(s, o, u).spawnCount = meta[u].spawnBudget
       THEN EntryOf(s, u).expiresAt
       ELSE IF l.op \in {"admit", "dispatch"} /\ l.task = u THEN -1
       ELSE IF h[u] >= t THEN h[u] ELSE -1]

NoDecision == [type |-> "none", reason |-> "none", currentDepth |-> NoDepth]

\* the most recent step when it was an admit or a signalRetry call: its name and
\* task id and, for admit, the decision it returned, the destination it
\* dispatched to and the snapshot it used
Last(op, taskId, decision, dest, pressure) ==
  [op |-> op, task |-> taskId, decision |-> decision, dest |-> dest, pressure |-> pressure]

Call(op, taskId) == Last(op, taskId, NoDecision, NoDest, NoPressure)

NoCall == Call("none", "none")

\* what runtimeStates.get finds when the call l is made: for an admit, "live"
\* for an unexpired entry, "expired" for a stored entry past its expiry ("spent"
\* when that entry had a budget of at least 1 used up and no retry), "lost"
\* when nothing is stored although the task's entry had its budget used up and
\* its expiry time has not passed (it was evicted, or the engine was replaced),
\* and "absent" otherwise
Found(l) ==
  IF l.op # "admit" THEN "none"
  ELSE IF LiveEntry(store, l.task, now) THEN "live"
  ELSE IF \E i \in 1..Len(store) : store[i].key = l.task
         THEN IF /\ meta[l.task].spawnBudget >= 1
                 /\ StateOf(store, objs, l.task).spawnCount >= meta[l.task].spawnBudget
                 /\ StateOf(store, objs, l.task).retryDepth = 0
                THEN "spent" ELSE "expired"
  ELSE IF exhaustedUntil[l.task] >= now THEN "lost"
  ELSE "absent"

\* no decision handler was called
NotSeen == [state |-> "none"]

\* getRuntimeState returned undefined
Undefined == [state |-> "undefined"]

\* getRuntimeState(taskId): runtimeStates.get(taskId)
getRuntimeState(s, o, taskId, t) ==
  IF TTLGetValue(s, taskId, t) = NoRef THEN Undefined
  ELSE o[taskId][TTLGetValue(s, taskId, t)]

\* a decision handler that is called before the call's changes are stored
handlerSeesBeforeUpdate(s, o, s2, o2, l, t) ==
  IF onDecision /\ l.op = "admit" /\ l.decision # TypeError
    THEN getRuntimeState(s, o, l.task, t)
    ELSE NotSeen

\* admit calls emitDecision last: on the dispatch path after step 7, with the
\* store s2 and the states o2 the call leaves (s, o: those it was entered with)
handlerSees(s, o, s2, o2, l, t) ==
  IF onDecision /\ l.op = "admit" /\ l.decision # TypeError
    THEN getRuntimeState(s2, o2, l.task, t)
    ELSE NotSeen

(* ------------------------------ actions -------------------------------- *)
\* a call on the TTLMap used on its own
\* the last call of the TTLMap: its arguments and what it returned (NoRef is
\* undefined)
StoreOp(op, key, arg, result) == [op |-> op, key |-> key, arg |-> arg, result |-> result]

NoStoreOp == StoreOp("none", "none", <<>>, NoRef)

\* a new engine: nothing stored, nothing called
NewEngine ==
  /\ now = 0
  /\ store = <<>>
  /\ objs = [key \in TaskIds |-> [k \in Slots |-> FreeObj]]
  /\ stack = <<>>
  /\ last = NoCall
  /\ events = <<>>
  /\ run = [u \in TaskIds |-> ZeroRun]
  /\ exhaustedUntil = [u \in TaskIds |-> -1]
  /\ found = "none"
  /\ seen = NotSeen

\* the engine as the standard configuration builds it
NoBuild == [phase |-> "built"]

\* no call of decayWeight, of the priority-based strategy or of a tracker
NoDecay == [phase |-> "unused"]
NoPrio == [phase |-> "unused"]
NoTracker == [phase |-> "unused"]

LibUnused ==
  /\ decay = NoDecay
  /\ prio = NoPrio
  /\ tracker = NoTracker

\* the engine alone: no TTLMap is used beside its own
InitEngine ==
  /\ NewEngine
  /\ build = NoBuild
  /\ LibUnused
  /\ ttlMap = <<>>
  /\ ttlMaxSize = 0
  /\ ttlOp = NoStoreOp

Init ==
  /\ InitEngine
  /\ meta \in [TaskIds -> MetaSet]
  /\ meta["t2"] \in OtherMeta
  /\ maxTrackedTasks = SmallStore
  /\ onDecision = FALSE

\* the effect of a call on the program state, with the history kept up to date
Effect(s2, o2, st2, t2, l2, r2) ==
  /\ store' = s2
  /\ objs' = Collect(o2, s2, st2)
  /\ stack' = st2
  /\ now' = t2
  /\ last' = l2
  /\ run' = NormRun(r2, s2, t2)
  /\ exhaustedUntil' = NormHold(exhaustedUntil, s2, o2, t2, l2)
  /\ found' = Found(l2)
  /\ seen' = handlerSees(store, objs, s2, o2, l2, t2)
  /\ UNCHANGED <<meta, maxTrackedTasks, onDecision, ttlMap, ttlMaxSize, ttlOp, build,
                 libVars>>

RunAfterAdmit(taskId, d) ==
  [run EXCEPT ![taskId] =
     StepRun(IF d.created THEN ZeroRun ELSE @, meta[taskId],
             Qualifying(meta[taskId], d.envelope, d.pressure, d.objs[taskId][d.ref]),
             d.decision.type = "dispatch")]

\* admit(task) with a dispatch handler that does not call back into the engine
Admit(taskId, raw) ==
  LET d == admitDecide(store, objs, stack, maxTrackedTasks, taskId, meta[taskId], raw, now)
      u == admitUpdate(d.store, d.objs, maxTrackedTasks, taskId, d.ref, now)
      dispatched == d.decision.type = "dispatch"
  IN /\ stack = <<>>
     /\ IF d.decision = TypeError
          THEN /\ Effect(store, objs, stack, now,
                         Last("admit", taskId, TypeError, NoDest, NoPressure), run)
               /\ events' = <<>>
          ELSE /\ Effect(IF dispatched THEN u.store ELSE d.store,
                         IF dispatched THEN u.objs ELSE d.objs,
                         stack, now, Last("admit", taskId, d.decision, d.dest, d.pressure),
                         RunAfterAdmit(taskId, d))
               /\ \E raw2 \in EmitReadings(onDecision, raw) :
                    events' = emitDecision(onDecision, taskId, d.decision, d.envelope,
                                           raw2, now)

\* a running dispatch handler calls the engine for its own task only
InScope(taskId) == IF stack = <<>> THEN TRUE ELSE stack[Len(stack)].task = taskId

\* signalRetry is not bounded by the code: the model stops it one past the task's limit
RetryCap(taskId) == meta[taskId].maxRetryDepth + 1

\* signalRetry(taskId); the guard on RetryCap only keeps the counter finite
SignalRetry(taskId) ==
  LET s1 == TTLGetStore(store, taskId, now)
      ref == TTLGetValue(store, taskId, now)
  IN /\ InScope(taskId)
     /\ IF ref # NoRef
       THEN /\ objs[taskId][ref].retryDepth < RetryCap(taskId)
            /\ Effect(TTLSet(s1, maxTrackedTasks, StateTTL, taskId, ref, now),
                      [objs EXCEPT ![taskId][ref].retryDepth =
                          retryDepthAfterSignal(objs[taskId][ref])],
                      stack, now, Call("signalRetry", taskId), run)
       ELSE Effect(s1, objs, stack, now, Call("signalRetry", taskId), run)
     /\ events' = <<>>

GetRuntimeState(taskId) ==
  /\ InScope(taskId)
  /\ Effect(TTLGetStore(store, taskId, now), objs, stack, now, NoCall, run)
  /\ events' = <<>>

\* the clock advances
Tick ==
  /\ now < MaxTime
  /\ Effect(store, objs, stack, now + 1, NoCall, run)
  /\ events' = <<>>

Next ==
  \/ \E taskId \in TaskIds, raw \in PressureInputs : Admit(taskId, raw)
  \/ \E taskId \in TaskIds : SignalRetry(taskId)
  \/ \E taskId \in TaskIds : GetRuntimeState(taskId)
  \/ Tick

Spec == Init /\ [][Next]_vars

(* ------------- dispatch handlers that call back into the engine -------- *)
\* admit(task) up to and including the call of the dispatch handler; on the
\* drop paths the call returns at once
EnterAdmit(taskId, raw) ==
  LET d == admitDecide(store, objs, stack, maxTrackedTasks, taskId, meta[taskId], raw, now)
      dispatched == d.decision.type = "dispatch"
  IN /\ InScope(taskId)
     /\ d.decision # TypeError
     /\ dispatched => Len(stack) < MaxDepth
     /\ Effect(d.store, d.objs,
               IF dispatched THEN Append(stack, [task |-> taskId, ref |-> d.ref, dest |-> d.dest,
                                                  pressure |-> d.pressure, raw |-> raw])
                             ELSE stack,
               now,
               IF dispatched THEN Last("dispatch", taskId, NoDecision, d.dest, d.pressure)
                             ELSE Last("admit", taskId, d.decision, d.dest, d.pressure),
               RunAfterAdmit(taskId, d))
     /\ \E raw2 \in EmitReadings(onDecision, raw) :
          events' = IF dispatched THEN <<>>
                    ELSE emitDecision(onDecision, taskId, d.decision, d.envelope, raw2, now)

\* the innermost dispatch handler returns and its admit() call finishes
ReturnAdmit ==
  /\ stack # <<>>
  /\ LET f == stack[Len(stack)]
         u == admitUpdate(store, objs, maxTrackedTasks, f.task, f.ref, now)
     IN /\ Effect(u.store, u.objs, SubSeq(stack, 1, Len(stack) - 1), now,
                  Last("admit", f.task, DispatchDecision, f.dest, f.pressure), run)
        /\ \E raw2 \in EmitReadings(onDecision, f.raw) :
             events' = emitDecision(onDecision, f.task, DispatchDecision,
                                    resolve(meta[f.task].intent), raw2, now)

NextReentrant ==
  \/ \E taskId \in TaskIds, raw \in PressureInputs : EnterAdmit(taskId, raw)
  \/ ReturnAdmit
  \/ \E taskId \in TaskIds : SignalRetry(taskId)
  \/ \E taskId \in TaskIds : GetRuntimeState(taskId)
  \/ Tick

InitReentrant ==
  /\ Init
  /\ meta["t1"] \in OtherMeta

SpecReentrant == InitReentrant /\ [][NextReentrant]_vars

(* ----------------- an engine with a decision handler ------------------- *)
\* a task of budget 1 under every envelope, its decisions observed
InitObserved ==
  /\ InitEngine
  /\ meta \in [TaskIds -> [spawnBudget : {1}, maxRetryDepth : {1}, intent : ObservedIntents]]
  /\ meta["t2"] \in OtherMeta
  /\ maxTrackedTasks = SmallStore
  /\ onDecision = TRUE

SpecObserved == InitObserved /\ [][Next]_vars

(* ------------------ stores of every capacity up to roomy --------------- *)
\* two tasks of budget 1 on a store that holds one entry or both
InitCapacity ==
  /\ InitEngine
  /\ meta \in [TaskIds -> OtherMeta]
  /\ maxTrackedTasks \in 1..Cardinality(TaskIds)
  /\ onDecision = FALSE

\* a pressure source that always gives the same readings, below the threshold
CalmReading == <<-3, 5, 12>>

NextCapacity ==
  \/ \E taskId \in TaskIds : Admit(taskId, CalmReading)
  \/ \E taskId \in TaskIds : SignalRetry(taskId)
  \/ \E taskId \in TaskIds : GetRuntimeState(taskId)
  \/ Tick

SpecCapacity == InitCapacity /\ [][NextCapacity]_vars

(* -------- dispatch handlers that call back, decisions observed --------- *)
\* the re-entrant engine with a decision handler configured: two tasks of
\* budget 1
InitOrder ==
  /\ InitEngine
  /\ meta \in [TaskIds -> OtherMeta]
  /\ maxTrackedTasks = SmallStore
  /\ onDecision = TRUE

\* the readings of step 2 are calm; those of the emission are any
NextOrder ==
  \/ \E taskId \in TaskIds : EnterAdmit(taskId, CalmReading)
  \/ ReturnAdmit
  \/ \E taskId \in TaskIds : GetRuntimeState(taskId)
  \/ Tick

SpecOrder == InitOrder /\ [][NextOrder]_vars

(* -------------------- the engine instance is replaced ------------------ *)
NoObjs == [key \in TaskIds |-> [k \in Slots |-> FreeObj]]

\* maestro = createFreshMaestro(): a new engine of the same configuration
\* takes the place of the old one, whose runtime states are gone with it
Restart ==
  /\ stack = <<>>
  /\ Effect(<<>>, NoObjs, <<>>, now, Call("restart", "none"), run)
  /\ events' = <<>>

NextRestart ==
  \/ \E taskId \in TaskIds, raw \in PressureInputs : Admit(taskId, raw)
  \/ \E taskId \in TaskIds : SignalRetry(taskId)
  \/ \E taskId \in TaskIds : GetRuntimeState(taskId)
  \/ Tick
  \/ Restart

SpecRestart == Init /\ [][NextRestart]_vars

(* ------------------------- tasks of any intent ------------------------- *)
\* no intent, the empty string, a mapped intent, an unmapped one, and names
\* that every object inherits
AnyIntents == {NoIntent, "", "critical", "unknown"} \cup ProtoKeys

InitIntents ==
  /\ InitEngine
  /\ meta \in [TaskIds -> [spawnBudget : {1}, maxRetryDepth : {1}, intent : AnyIntents]]
  /\ meta["t2"] \in OtherMeta
  /\ maxTrackedTasks = SmallStore
  /\ onDecision = TRUE

\* the pressure plays no part in the resolution: the readings are calm
SpecIntents == InitIntents /\ [][NextCapacity]_vars

(* ----------------------- tasks of every flag class --------------------- *)
FlagIntents == {NoIntent, "critical", "noretry"}

\* a task with retries to spare: one more than MaxRetry
InitFlags ==
  /\ InitEngine
  /\ meta \in [TaskIds -> [spawnBudget : {MaxBudget}, maxRetryDepth : {MaxRetry + 1},
                           intent : FlagIntents]
              \cup OtherMeta]
  /\ meta["t2"] \in OtherMeta
  /\ meta["t1"] \notin OtherMeta
  /\ maxTrackedTasks = SmallStore
  /\ onDecision = FALSE

SpecFlags == InitFlags /\ [][NextCapacity]_vars

(* ------------------------ the TTLMap on its own ------------------------ *)
StoreKeys == {"a", "b", "c"}

StoreValues == {1, 2}

\* the ttl argument of set: left out (NoTTL), or Infinity
NoTTL == -1

TTLArgs == {NoTTL, Infinity}

\* ttl ?? this.defaultTTL
TTLOrDefault(ttl, defaultTTL) == IF ttl = NoTTL THEN defaultTTL ELSE ttl

engineVars ==
  <<store, objs, stack, meta, maxTrackedTasks, onDecision, last, events, run, exhaustedUntil,
    found, seen>>

\* new TTLMap(StateTTL, maxSize) beside an engine that is never called; the
\* capacity is any number below the number of keys, 0 included
InitStore ==
  /\ NewEngine
  /\ meta \in [TaskIds -> OtherMeta]
  /\ maxTrackedTasks = SmallStore
  /\ onDecision = FALSE
  /\ build = NoBuild
  /\ LibUnused
  /\ ttlMap = <<>>
  /\ ttlMaxSize \in 0..(Cardinality(StoreKeys) - 1)
  /\ ttlOp = NoStoreOp

StoreEffect(m2, op, t2) ==
  /\ ttlMap' = m2
  /\ ttlOp' = op
  /\ now' = t2
  /\ UNCHANGED <<engineVars, ttlMaxSize, build, libVars>>

TTLMapSet(key, value, ttl) ==
  StoreEffect(TTLSet(ttlMap, ttlMaxSize, TTLOrDefault(ttl, StateTTL), key, value, now),
              StoreOp("set", key, <<value, ttl>>, NoRef), now)

TTLMapGet(key) ==
  StoreEffect(TTLGetStore(ttlMap, key, now),
              StoreOp("get", key, <<>>, TTLGetValue(ttlMap, key, now)), now)

\* has is get(key) !== undefined
TTLMapHas(key) ==
  StoreEffect(TTLGetStore(ttlMap, key, now),
              StoreOp("has", key, <<>>, TTLGetValue(ttlMap, key, now) # NoRef), now)

TTLMapDelete(key) ==
  StoreEffect(MapDelete(ttlMap, key),
              StoreOp("delete", key, <<>>, IndexOfKey(ttlMap, key) # 0), now)

TTLMapClear == StoreEffect(<<>>, StoreOp("clear", "none", <<>>, NoRef), now)

TTLMapPrune == StoreEffect(Prune(ttlMap, now), StoreOp("prune", "none", <<>>, PruneCount(ttlMap, now)), now)

StoreTick ==
  /\ now < MaxTime
  /\ StoreEffect(ttlMap, NoStoreOp, now + 1)

NextStore ==
  \/ \E key \in StoreKeys, value \in StoreValues, ttl \in TTLArgs : TTLMapSet(key, value, ttl)
  \/ \E key \in StoreKeys : TTLMapGet(key)
  \/ \E key \in StoreKeys : TTLMapHas(key)
  \/ \E key \in StoreKeys : TTLMapDelete(key)
  \/ TTLMapClear
  \/ TTLMapPrune
  \/ StoreTick

SpecStore == InitStore /\ [][NextStore]_vars

(* ---------------------------- construction ---------------------------- *)
\* a value passed as defaultEnvelope: whether one is passed at all, whether the
\* object is frozen (Object.isFrozen), and whether its eligibleCandidates
\* array is frozen
EnvelopeArg(supplied, frozen, listFrozen) ==
  [supplied |-> supplied, frozen |-> frozen, listFrozen |-> listFrozen]

\* createDecisionEnvelope: Object.freeze of an object holding a frozen copy of
\* the list
createDecisionEnvelope == EnvelopeArg(TRUE, TRUE, TRUE)

\* undefined, an object literal, Object.freeze of an object literal, an
\* unfrozen object holding a frozen list, and createDecisionEnvelope's result
EnvelopeArgs ==
  { EnvelopeArg(FALSE, FALSE, FALSE), EnvelopeArg(TRUE, FALSE, FALSE),
    EnvelopeArg(TRUE, TRUE, FALSE), EnvelopeArg(TRUE, FALSE, TRUE),
    createDecisionEnvelope }

\* createMainRoutine: what the construction comes to
createMainRoutine(defaultEnvelopeArg) ==
  IF ~defaultEnvelopeArg.supplied THEN "Error: defaultEnvelope is required (RFC-7)"
  ELSE IF ~defaultEnvelopeArg.frozen
    THEN "Error: defaultEnvelope must be immutable (Object.freeze)"
  ELSE "ok"

\* the member strategies, by name
Members == {"intent", "priority", "penalty", "random"}

\* createStandardStrategyStack: the list it hands to composeStrategies
StandardStack == <<"intent", "priority", "penalty", "random">>

\* the lists given to composeStrategies: every list of distinct members
StrategyLists ==
  { l \in UNION { [1..n -> Members] : n \in 0..Cardinality(Members) } :
      \A i, j \in 1..Len(l) : i # j => l[i] # l[j] }

\* what a member's select returns for the context at hand: null or a group
\* whose primary it created
MemberResults == [Members -> {NoDest, "fast"}]

\* composeStrategies: it returns a strategy for every list
composeStrategies(strategies) == "ok"

RECURSIVE composedSelectAll(_, _, _)
\* a composed select that asks every member and keeps the last result
composedSelectAll(strategies, results, i) ==
  IF i > Len(strategies) THEN [result |-> NoDest, consulted |-> <<>>]
  ELSE LET rest == composedSelectAll(strategies, results, i + 1)
       IN [result |-> IF rest.result # NoDest THEN rest.result ELSE results[strategies[i]],
           consulted |-> <<strategies[i]>> \o rest.consulted]

RECURSIVE composedSelect(_, _, _)
\* select of the composed strategy, from member i on: the result and the
\* members whose select was called, in the order of the calls
composedSelect(strategies, results, i) ==
  IF i > Len(strategies) THEN [result |-> NoDest, consulted |-> <<>>]
  ELSE IF results[strategies[i]] # NoDest
    THEN [result |-> results[strategies[i]], consulted |-> <<strategies[i]>>]
  ELSE LET rest == composedSelect(strategies, results, i + 1)
       IN [result |-> rest.result, consulted |-> <<strategies[i]>> \o rest.consulted]

NotYet == "none"

InitBuild ==
  /\ NewEngine
  /\ meta \in [TaskIds -> OtherMeta]
  /\ maxTrackedTasks = SmallStore
  /\ onDecision = FALSE
  /\ ttlMap = <<>>
  /\ ttlMaxSize = 0
  /\ ttlOp = NoStoreOp
  /\ LibUnused
  /\ \E e \in EnvelopeArgs, l \in StrategyLists, r \in MemberResults :
       build = [phase |-> "building", defaultEnvelope |-> e, strategies |-> l,
                results |-> r, engine |-> NotYet, composed |-> NotYet,
                consulted |-> <<>>, selected |-> NotYet]

BuildEffect(b2) ==
  /\ build' = b2
  /\ UNCHANGED <<engineVars, now, ttlMap, ttlMaxSize, ttlOp, libVars>>

\* createMainRoutine({ ..., defaultEnvelope })
CreateMainRoutine ==
  /\ build.engine = NotYet
  /\ BuildEffect([build EXCEPT !.engine = createMainRoutine(build.defaultEnvelope)])

\* composeStrategies(strategies)
ComposeStrategies ==
  /\ build.composed = NotYet
  /\ BuildEffect([build EXCEPT !.composed = composeStrategies(build.strategies)])

\* composed.select(context)
ComposedSelect ==
  /\ build.composed = "ok"
  /\ build.selected = NotYet
  /\ LET r == composedSelect(build.strategies, build.results, 1)
     IN BuildEffect([build EXCEPT !.consulted = r.consulted, !.selected = r.result])

NextBuild ==
  \/ CreateMainRoutine
  \/ ComposeStrategies
  \/ ComposedSelect

SpecBuild == InitBuild /\ [][NextBuild]_vars

(* ------------------------------ decayWeight ---------------------------- *)
\* Elapsed time is counted in half-lives (HALF_LIFE_MS), so that
\* Math.exp(-LAMBDA * elapsedMs) is a power of two. A double is a power of two
\* or zero; the least positive double is 2^MinExponent.
MinExponent == -1074

Pow2(e) == [mantissa |-> 1, exponent |-> e]
Zero == [mantissa |-> 0, exponent |-> 0]
One == Pow2(0)

Less(a, b) ==
  \/ a.mantissa = 0 /\ b.mantissa = 1
  \/ a.mantissa = 1 /\ b.mantissa = 1 /\ a.exponent < b.exponent

Roundings == {"down", "up"}

\* Math.exp(-LAMBDA * elapsedMs) for elapsedMs of e half-lives: 2^-e rounded to
\* a double. Half the least positive double lies midway between it and zero;
\* the rounding of the product and of exp decides which of the two comes out.
exp(e, rounding) ==
  IF -e >= MinExponent THEN Pow2(-e)
  ELSE IF -e = MinExponent - 1 /\ rounding = "up" THEN Pow2(MinExponent)
  ELSE Zero

decayWeightFlat(elapsed, rounding) ==
  IF elapsed < 0 THEN One
  ELSE IF elapsed > 1 THEN exp(1, rounding) ELSE exp(elapsed, rounding)

decayWeight(elapsed, rounding) ==
  IF elapsed < 0 THEN One ELSE exp(elapsed, rounding)

\* the elapsed times tried: around zero and around the least positive double
EdgeWidth == 2
ElapsedInputs ==
  (-1..(EdgeWidth + 1)) \cup ((-MinExponent - EdgeWidth)..(-MinExponent + EdgeWidth))

\* an engine and a TTLMap that are never called
IdleEngine ==
  /\ NewEngine
  /\ meta \in [TaskIds -> OtherMeta]
  /\ maxTrackedTasks = SmallStore
  /\ onDecision = FALSE
  /\ ttlMap = <<>>
  /\ ttlMaxSize = 0
  /\ ttlOp = NoStoreOp
  /\ build = NoBuild

InitDecay ==
  /\ IdleEngine
  /\ prio = NoPrio
  /\ tracker = NoTracker
  /\ \E t1 \in ElapsedInputs, t2 \in ElapsedInputs, r \in Roundings :
       decay = [phase |-> "given", elapsed |-> <<t1, t2>>, rounding |-> r,
                weights |-> <<Zero, Zero>>]

\* decayWeight(elapsed[1]) and decayWeight(elapsed[2])
DecayWeight ==
  /\ decay.phase = "given"
  /\ decay' = [decay EXCEPT !.phase = "weighed",
                            !.weights = <<decayWeight(decay.elapsed[1], decay.rounding),
                                          decayWeight(decay.elapsed[2], decay.rounding)>>]
  /\ UNCHANGED <<engineVars, now, ttlMap, ttlMaxSize, ttlOp, build, prio, tracker>>

NextDecay == DecayWeight

SpecDecay == InitDecay /\ [][NextDecay]_vars

(* ------------------------- priority-based strategy --------------------- *)
\* task.metadata.priority left undefined
NoPriority == -1

\* Pressure is in tenths. The strategy is given three equal readings x; these
\* are the x for which (x/10 + x/10 + x/10) / 3 comes out above x/10 in
\* doubles (0.10000000000000002, 0.20000000000000004, 0.4000000000000001,
\* 0.8000000000000002); for the other x it is x/10 or below.
RoundedUp == {1, 2, 4, 8}

EqualReading(x) == [memory |-> x, queueDepth |-> x, spawnSaturation |-> x]

\* avgPressure <= threshold.maxPressure, for equal readings
avgPressureAtMost(pressure, maxPressure) ==
  LET sum == pressure.memory + pressure.queueDepth + pressure.spawnSaturation
  IN IF sum = 3 * maxPressure
       THEN pressure.memory \notin RoundedUp
       ELSE sum < 3 * maxPressure

RECURSIVE firstMatch(_, _, _, _)
firstMatch(thresholds, effectivePriority, pressure, i) ==
  IF i > Len(thresholds) THEN NoDest
  ELSE IF /\ effectivePriority >= thresholds[i].minPriority
          /\ avgPressureAtMost(pressure, thresholds[i].maxPressure)
         THEN thresholds[i].subRoutineId
         ELSE firstMatch(thresholds, effectivePriority, pressure, i + 1)

prioritySelect(md, rs, pressure, thresholds, fallbackId) ==
  IF ~checkEligibility(md, rs) THEN NoDest
  ELSE LET taskPriority == IF md.priority = NoPriority THEN 50 ELSE md.priority
           retryBoost == Min(rs.retryDepth * 5, 20)
           effectivePriority == Min(taskPriority + retryBoost, 100)
           matchedId == firstMatch(thresholds, effectivePriority, pressure, 1)
       IN IF matchedId # NoDest THEN matchedId ELSE fallbackId

\* the contexts and configurations tried
Priorities == {NoPriority, 40, 60, 90}
MaxBoostDepth == 5
PriorityPressures == {EqualReading(x) : x \in {3, 5, 8, 10}}
Threshold(minPriority, maxPressure, subRoutineId) ==
  [minPriority |-> minPriority, maxPressure |-> maxPressure,
   subRoutineId |-> subRoutineId]
ThresholdLists ==
  { <<Threshold(80, 5, "premium"), Threshold(50, 8, "standard")>>,
    <<Threshold(50, 8, "standard"), Threshold(80, 5, "premium")>>,
    <<Threshold(101, 10, "beyond")>>,
    <<>> }
FallbackIds == {"default", "fallback"}

InitPriority ==
  /\ IdleEngine
  /\ decay = NoDecay
  /\ tracker = NoTracker
  /\ \E pr \in Priorities, rd \in 0..MaxBoostDepth, mrd \in {2, MaxBoostDepth + 1},
        sc \in 0..1, p \in PriorityPressures, th \in ThresholdLists,
        fb \in FallbackIds :
       prio = [phase |-> "given",
               metadata |-> [priority |-> pr, spawnBudget |-> 1, maxRetryDepth |-> mrd],
               runtimeState |-> [spawnCount |-> sc, retryDepth |-> rd],
               pressure |-> p, thresholds |-> th, fallbackId |-> fb,
               selected |-> NoDest]

\* strategy.select(context)
PrioritySelect ==
  /\ prio.phase = "given"
  /\ prio' = [prio EXCEPT !.phase = "selected",
                          !.selected = prioritySelect(prio.metadata, prio.runtimeState,
                                                      prio.pressure, prio.thresholds,
                                                      prio.fallbackId)]
  /\ UNCHANGED <<engineVars, now, ttlMap, ttlMaxSize, ttlOp, build, decay, tracker>>

NextPriority == PrioritySelect

SpecPriority == InitPriority /\ [][NextPriority]_vars

(* ------------------------------ penalty tracker ------------------------ *)
\* Time is counted in half-lives (5 minutes) here; 30 * 60 * 1000 ms are 6.
PruneAge == 6

TrackerIds == {"a", "b"}
PenaltyInputs == {-1, 1, 1000}
MaxTrackerTime == 7
MaxPenalties == 3

\* Effective penalties are kept in units of 2^-FractionBits, which holds every
\* weight of an elapsed time up to FractionBits half-lives exactly.
FractionBits == 10

RECURSIVE TwoTo(_)
TwoTo(n) == IF n = 0 THEN 1 ELSE 2 * TwoTo(n - 1)

\* record.penalty * weight
Weighted(penalty, weight) ==
  IF weight.mantissa = 0 THEN 0 ELSE penalty * TwoTo(FractionBits + weight.exponent)

RECURSIVE Filter(_, _)
Filter(records, cutoff) ==
  IF records = <<>> THEN <<>>
  ELSE IF Head(records).recordedAt > cutoff
         THEN <<Head(records)>> \o Filter(Tail(records), cutoff)
         ELSE Filter(Tail(records), cutoff)

penalize(penalties, subRoutineId, penalty, t) ==
  LET records == Append(penalties[subRoutineId], [penalty |-> penalty, recordedAt |-> t])
      cutoff == t - PruneAge
  IN [penalties EXCEPT ![subRoutineId] = Filter(records, cutoff)]

RECURSIVE total(_, _)
total(records, t) ==
  IF records = <<>> THEN 0
  ELSE Weighted(Head(records).penalty, decayWeight(t - Head(records).recordedAt, "down"))
       + total(Tail(records), t)

\* getEffectivePenalty that leaves out the records older than 30 minutes
getEffectivePenaltyPruned(penalties, subRoutineId, t) ==
  total(Filter(penalties[subRoutineId], t - PruneAge), t)

getEffectivePenalty(penalties, subRoutineId, t) == total(penalties[subRoutineId], t)

NoTrackerOp == [name |-> "none", subRoutineId |-> "none", penalty |-> 0, result |-> 0]

InitTracker ==
  /\ IdleEngine
  /\ decay = NoDecay
  /\ prio = NoPrio
  /\ tracker = [phase |-> "created", penalties |-> [d \in TrackerIds |-> <<>>],
                calls |-> 0, op |-> NoTrackerOp]

TrackerEffect(tr2, t2) ==
  /\ tracker' = tr2
  /\ now' = t2
  /\ UNCHANGED <<engineVars, ttlMap, ttlMaxSize, ttlOp, build, decay, prio>>

\* tracker.penalize(subRoutineId, penalty)
Penalize(subRoutineId, penalty) ==
  /\ tracker.calls < MaxPenalties
  /\ TrackerEffect([tracker EXCEPT
                      !.penalties = penalize(tracker.penalties, subRoutineId, penalty, now),
                      !.calls = tracker.calls + 1,
                      !.op = [name |-> "penalize", subRoutineId |-> subRoutineId,
                              penalty |-> penalty, result |-> 0]], now)

\* tracker.getEffectivePenalty(subRoutineId)
GetEffectivePenalty(subRoutineId) ==
  /\ tracker.phase = "created"
  /\ TrackerEffect([tracker EXCEPT
                   !.op = [name |-> "getEffectivePenalty", subRoutineId |-> subRoutineId,
                           penalty |-> 0,
                           result |-> getEffectivePenalty(tracker.penalties, subRoutineId, now)]],
                now)

TrackerTick ==
  /\ now < MaxTrackerTime
  /\ TrackerEffect([tracker EXCEPT !.op = NoTrackerOp], now + 1)

NextTracker ==
  \/ \E d \in TrackerIds, penalty \in PenaltyInputs : Penalize(d, penalty)
  \/ \E d \in TrackerIds : GetEffectivePenalty(d)
  \/ TrackerTick

SpecTracker == InitTracker /\ [][NextTracker]_vars

(* ------------------------- the standard strategy stack ----------------- *)
\* penaltyThreshold left at its default, Infinity
Unlimited == -1

RECURSIVE lowest(_, _, _, _, _)
\* the loop over subRoutineIds from index i on: bestId, given the best so far
\* (NoDest while lowestPenalty is still Infinity)
lowest(penalties, subRoutineIds, t, i, best) ==
  IF i > Len(subRoutineIds) THEN best
  ELSE LET id == subRoutineIds[i]
           better == best = NoDest
                     \/ getEffectivePenalty(penalties, id, t)
                          < getEffectivePenalty(penalties, best, t)
       IN lowest(penalties, subRoutineIds, t, i + 1, IF better THEN id ELSE best)

penaltySelect(md, rs, penalties, t, subRoutineIds, penaltyThreshold) ==
  IF ~checkEligibility(md, rs) THEN NoDest
  ELSE LET bestId == lowest(penalties, subRoutineIds, t, 1, NoDest)
       IN IF /\ penaltyThreshold # Unlimited
             /\ getEffectivePenalty(penalties, bestId, t) > penaltyThreshold
            THEN NoDest
            ELSE bestId

\* a random strategy that selects for a task out of budget too
randomSelectUnchecked(md, rs, subRoutineIds, index) == subRoutineIds[index]

\* index: Math.floor(random() * subRoutineIds.length) + 1
randomSelect(md, rs, subRoutineIds, index) ==
  IF ~checkEligibility(md, rs) THEN NoDest ELSE subRoutineIds[index]

\* the configurations of the penalty and random strategies and the contexts tried
SubRoutineIds == <<"a", "b">>
PenaltyThresholds == {Unlimited, 50 * TwoTo(FractionBits)}
TrackerStates ==
  { [d \in TrackerIds |-> <<>>],
    [a |-> <<[penalty |-> 1000, recordedAt |-> 0]>>, b |-> <<>>],
    [a |-> <<[penalty |-> 1000, recordedAt |-> 0]>>,
     b |-> <<[penalty |-> 1000, recordedAt |-> 0]>>] }
StackIntents == {NoIntent, "critical", "unknown"}
StackContexts ==
  [metadata : [priority : {NoPriority, 90}, spawnBudget : {1}, maxRetryDepth : {2},
               intent : StackIntents],
   runtimeState : [spawnCount : 0..1, retryDepth : 0..2, lastAttemptAt : {0}],
   pressure : {EqualReading(3), EqualReading(10)}]

\* what each member of the standard stack selects for the context
StackResults(c, thresholds, penalties, penaltyThreshold, index) ==
  [intent |-> intentBasedSelect(c.metadata, c.runtimeState),
   priority |-> prioritySelect(c.metadata, c.runtimeState, c.pressure, thresholds, "default"),
   penalty |-> penaltySelect(c.metadata, c.runtimeState, penalties, 0, SubRoutineIds,
                             penaltyThreshold),
   random |-> randomSelect(c.metadata, c.runtimeState, SubRoutineIds, index)]

\* createStandardStrategyStack({ intent, priority, penalty, random }) built from
\* the four built-in strategies, and a context for its select
InitStack ==
  /\ NewEngine
  /\ meta \in [TaskIds -> OtherMeta]
  /\ maxTrackedTasks = SmallStore
  /\ onDecision = FALSE
  /\ ttlMap = <<>>
  /\ ttlMaxSize = 0
  /\ ttlOp = NoStoreOp
  /\ LibUnused
  /\ \E c \in StackContexts, th \in ThresholdLists, p \in TrackerStates,
        pt \in PenaltyThresholds, index \in 1..Len(SubRoutineIds) :
       build = [phase |-> "building", defaultEnvelope |-> createDecisionEnvelope,
                strategies |-> StandardStack, context |-> c,
                results |-> StackResults(c, th, p, pt, index),
                engine |-> NotYet, composed |-> NotYet,
                consulted |-> <<>>, selected |-> NotYet]

SpecStack == InitStack /\ [][NextBuild]_vars

(* ------------------------------ properties ----------------------------- *)
Present(s, key) == IndexOfKey(s, key) # 0

PressureSum(p) == p.memory + p.queueDepth + p.spawnSaturation

Admitted(l, t) == l.op = "admit" /\ l.task = t

Dropped(l, reason) ==
  /\ l.decision.type = "drop"
  /\ l.decision.reason = reason
  /\ l.dest = NoDest

\* C1: in every reachable state, every task id with a live entry has
\* 0 <= spawnCount <= spawnBudget.
C1_SpawnCountWithinBudget ==
  \A t \in TaskIds : LiveEntry(store, t, now) =>
     /\ StateOf(store, objs, t).spawnCount >= 0
     /\ StateOf(store, objs, t).spawnCount <= meta[t].spawnBudget

\* an admit has just dispatched the last spawn of the budget
C1_Witness ==
  \E t \in TaskIds :
     /\ LiveEntry(store, t, now)
     /\ meta[t].spawnBudget >= 1
     /\ StateOf(store, objs, t).spawnCount = meta[t].spawnBudget
     /\ Admitted(last, t)
     /\ last.decision.type = "dispatch"

\* C2: also when dispatch handlers call admit and signalRetry for their own
\* task before returning, neither the number of dispatch invocations since the
\* entry was created nor the stored spawnCount exceeds spawnBudget.
C2_BudgetHardCapUnderReentrancy ==
  \A t \in TaskIds : LiveEntry(store, t, now) =>
     /\ StateOf(store, objs, t).spawnCount <= meta[t].spawnBudget
     /\ run[t].d <= meta[t].spawnBudget

\* C3 as stated: from the moment spawnCount equals spawnBudget and until the
\* expiry time of that entry, every admit of the task id drops with
\* spawn_budget_exhausted and dispatches nothing.
C3_DropsUntilOwnExpiry ==
  [][\A t \in TaskIds :
       (exhaustedUntil[t] > now /\ Admitted(last', t))
          => Dropped(last', "spawn_budget_exhausted")]_vars

\* C3 amended: an admit of a task id whose entry is still stored and unexpired
\* with spawnCount equal to spawnBudget drops with spawn_budget_exhausted,
\* dispatches nothing and leaves the count alone.
C3_DropsWhileEntryLives ==
  [][\A t \in TaskIds :
       (/\ LiveEntry(store, t, now)
        /\ StateOf(store, objs, t).spawnCount = meta[t].spawnBudget
        /\ Admitted(last', t))
          => /\ Dropped(last', "spawn_budget_exhausted")
             /\ LiveEntry(store', t, now')
             /\ StateOf(store', objs', t).spawnCount = meta[t].spawnBudget]_vars

\* an exhausted task has been dropped at the very expiry time of its entry
C3_Witness ==
  \E t \in TaskIds :
     /\ meta[t].spawnBudget >= 1
     /\ LiveEntry(store, t, now)
     /\ EntryOf(store, t).expiresAt = now
     /\ StateOf(store, objs, t).spawnCount = meta[t].spawnBudget
     /\ Admitted(last, t)
     /\ Dropped(last, "spawn_budget_exhausted")

\* C4: after N admissions in succession of a task (pressure at most 0.9, a
\* non-empty eligible set, retry depth left, the entry kept), spawnCount is
\* min(N, spawnBudget), min(N, spawnBudget) of them dispatched, and an
\* admission made with spawnCount = spawnBudget dropped with
\* spawn_budget_exhausted.
C4_SuccessiveAdmissions ==
  \A t \in TaskIds : (LiveEntry(store, t, now) /\ run[t].n >= 1) =>
     /\ StateOf(store, objs, t).spawnCount = Min(run[t].n, meta[t].spawnBudget)
     /\ run[t].d = Min(run[t].n, meta[t].spawnBudget)
     /\ Admitted(last, t) =>
          IF run[t].n <= meta[t].spawnBudget
            THEN last.decision.type = "dispatch"
            ELSE Dropped(last, "spawn_budget_exhausted")

\* a task of budget at least 1 has been admitted once more than its budget
C4_Witness ==
  \E t \in TaskIds :
     /\ meta[t].spawnBudget >= 1
     /\ LiveEntry(store, t, now)
     /\ run[t].n = meta[t].spawnBudget + 1
     /\ Admitted(last, t)
     /\ Dropped(last, "spawn_budget_exhausted")

\* C5: in every reachable state, every task id with a live entry has
\* 0 <= retryDepth <= maxRetryDepth.
C5_RetryDepthWithinLimit ==
  \A t \in TaskIds : LiveEntry(store, t, now) =>
     /\ StateOf(store, objs, t).retryDepth >= 0
     /\ StateOf(store, objs, t).retryDepth <= meta[t].maxRetryDepth

\* C6: the retryDepth of an entry never decreases, and it differs from what
\* an admit would have read before the step only when the step is a
\* signalRetry of that task id.
C6_RetryDepthOnlyBySignal ==
  [][\A t \in TaskIds : LiveEntry(store', t, now') =>
       /\ StateOf(store', objs', t).retryDepth >= Eff(t).retryDepth
       /\ StateOf(store', objs', t).retryDepth # Eff(t).retryDepth
            => (last'.op = "signalRetry" /\ last'.task = t)]_vars

\* an admit has run on an entry whose retryDepth had been raised
C6_Witness ==
  \E t \in TaskIds :
     /\ LiveEntry(store, t, now)
     /\ StateOf(store, objs, t).retryDepth >= 1
     /\ StateOf(store, objs, t).spawnCount >= 1
     /\ Admitted(last, t)

\* C7: a signalRetry on a live entry adds exactly 1 to retryDepth and keeps
\* spawnCount; an admit that reads retryDepth >= maxRetryDepth with
\* spawnCount < spawnBudget drops with retry_depth_exhausted and dispatches
\* nothing.
C7_SignalRetryThenDrop ==
  [][\A t \in TaskIds :
       /\ (last'.op = "signalRetry" /\ last'.task = t /\ LiveEntry(store, t, now))
            => /\ LiveEntry(store', t, now')
               /\ StateOf(store', objs', t).retryDepth = StateOf(store, objs, t).retryDepth + 1
               /\ StateOf(store', objs', t).spawnCount = StateOf(store, objs, t).spawnCount
       /\ (/\ Admitted(last', t)
           /\ Eff(t).retryDepth >= meta[t].maxRetryDepth
           /\ Eff(t).spawnCount < meta[t].spawnBudget)
            => /\ Dropped(last', "retry_depth_exhausted")
               /\ StateOf(store', objs', t).spawnCount = Eff(t).spawnCount]_vars

\* a dispatched task was signalled up to its limit and its next admit dropped
C7_Witness ==
  \E t \in TaskIds :
     /\ LiveEntry(store, t, now)
     /\ meta[t].maxRetryDepth >= 1
     /\ StateOf(store, objs, t).retryDepth >= meta[t].maxRetryDepth
     /\ StateOf(store, objs, t).spawnCount >= 1
     /\ StateOf(store, objs, t).spawnCount < meta[t].spawnBudget
     /\ Admitted(last, t)
     /\ Dropped(last, "retry_depth_exhausted")

\* C8: a signalRetry for a task id without a live entry leaves that id without
\* a live entry and every other id's entry as it was; an admit of an id
\* without a live entry ends with retryDepth 0 and spawnCount 1 if it
\* dispatched, 0 if it dropped.
C8_SignalRetryOnAbsent ==
  [][\A t \in TaskIds :
       /\ (last'.op = "signalRetry" /\ last'.task = t /\ ~LiveEntry(store, t, now))
            => /\ ~LiveEntry(store', t, now')
               /\ \A u \in TaskIds \ {t} :
                    /\ Present(store', u) = Present(store, u)
                    /\ Present(store, u) =>
                         /\ EntryOf(store', u) = EntryOf(store, u)
                         /\ StateOf(store', objs', u) = StateOf(store, objs, u)
       /\ (Admitted(last', t) /\ ~LiveEntry(store, t, now))
            => /\ LiveEntry(store', t, now')
               /\ StateOf(store', objs', t).retryDepth = 0
               /\ StateOf(store', objs', t).spawnCount =
                    (IF last'.decision.type = "dispatch" THEN 1 ELSE 0)]_vars

\* signalRetry was called for an id that has no entry while another id has one
C8_Witness ==
  /\ last.op = "signalRetry"
  /\ ~Present(store, last.task)
  /\ \E u \in TaskIds : u # last.task /\ LiveEntry(store, u, now)

\* C9: under an envelope with allowDrop = false an admit never drops with
\* pressure_exceeded, and it dispatches whenever spawnCount < spawnBudget,
\* retryDepth < maxRetryDepth and the distributor selects a destination.
C9_NoPressureDropWhenMasked ==
  [][\A t \in TaskIds :
       (Admitted(last', t) /\ ~resolve(meta[t].intent).allowDrop)
         => /\ last'.decision.reason # "pressure_exceeded"
            /\ (/\ Eff(t).spawnCount < meta[t].spawnBudget
                /\ Eff(t).retryDepth < meta[t].maxRetryDepth
                /\ distributorSelect(meta[t], resolve(meta[t].intent), Eff(t),
                                     last'.pressure) # NoDest)
                 => last'.decision.type = "dispatch"]_vars

\* a task of an allowDrop = false envelope was dispatched with all three
\* signals at 1.0
C9_Witness ==
  \E t \in TaskIds :
     /\ Admitted(last, t)
     /\ ~resolve(meta[t].intent).allowDrop
     /\ PressureSum(last.pressure) = 30
     /\ last.decision.type = "dispatch"

\* C10 as stated: under an envelope with allowDrop = true, within both budgets
\* and at an average pressure >= 0.9, admit drops with pressure_exceeded and
\* dispatches nothing.
C10_DropAtOrAboveThreshold ==
  [][\A t \in TaskIds :
       (/\ Admitted(last', t)
        /\ resolve(meta[t].intent).allowDrop
        /\ Eff(t).spawnCount < meta[t].spawnBudget
        /\ Eff(t).retryDepth < meta[t].maxRetryDepth
        /\ PressureSum(last'.pressure) >= 27)
         => Dropped(last', "pressure_exceeded")]_vars

\* C10 amended: the same at an average pressure strictly above 0.9.
C10_DropAboveThreshold ==
  [][\A t \in TaskIds :
       (/\ Admitted(last', t)
        /\ resolve(meta[t].intent).allowDrop
        /\ Eff(t).spawnCount < meta[t].spawnBudget
        /\ Eff(t).retryDepth < meta[t].maxRetryDepth
        /\ PressureSum(last'.pressure) > 27)
         => /\ Dropped(last', "pressure_exceeded")
            /\ StateOf(store', objs', t).spawnCount = Eff(t).spawnCount]_vars

\* a task within its budgets was dropped for pressure just above the threshold
C10_Witness ==
  \E t \in TaskIds :
     /\ Admitted(last, t)
     /\ resolve(meta[t].intent).allowDrop
     /\ PressureSum(last.pressure) = 28
     /\ StateOf(store, objs, t).spawnCount >= 1
     /\ Dropped(last, "pressure_exceeded")

\* C11: an admit that reads spawnCount >= spawnBudget drops with
\* spawn_budget_exhausted whatever retryDepth and pressure are; otherwise one
\* that reads retryDepth >= maxRetryDepth drops with retry_depth_exhausted
\* whatever the pressure is; pressure_exceeded is returned only when
\* spawnCount < spawnBudget and retryDepth < maxRetryDepth.
C11_DropReasonPrecedence ==
  [][\A t \in TaskIds : Admitted(last', t) =>
       /\ Eff(t).spawnCount >= meta[t].spawnBudget
            => Dropped(last', "spawn_budget_exhausted")
       /\ (/\ Eff(t).spawnCount < meta[t].spawnBudget
           /\ Eff(t).retryDepth >= meta[t].maxRetryDepth)
            => Dropped(last', "retry_depth_exhausted")
       /\ last'.decision.reason = "pressure_exceeded"
            => /\ Eff(t).spawnCount < meta[t].spawnBudget
               /\ Eff(t).retryDepth < meta[t].maxRetryDepth]_vars

\* a task with its budget used up, its retry depth at the limit and all
\* pressure signals at 1.0 under allowDrop = true was dropped for the budget
C11_Witness ==
  \E t \in TaskIds :
     /\ Admitted(last, t)
     /\ Dropped(last, "spawn_budget_exhausted")
     /\ resolve(meta[t].intent).allowDrop
     /\ meta[t].spawnBudget >= 1
     /\ StateOf(store, objs, t).spawnCount = meta[t].spawnBudget
     /\ StateOf(store, objs, t).retryDepth >= meta[t].maxRetryDepth
     /\ PressureSum(last.pressure) = 30

\* an engine call that is not made for task id a (the clock stands still)
CallNotFor(a) == now' = now /\ last'.task # a

\* the step leaves the entry of a and what a's next admit returns as they were
Untouched(a) ==
  /\ LiveEntry(store', a, now') = LiveEntry(store, a, now)
  /\ LiveEntry(store, a, now) =>
       /\ StateOf(store', objs', a).spawnCount = StateOf(store, objs, a).spawnCount
       /\ StateOf(store', objs', a).retryDepth = StateOf(store, objs, a).retryDepth
  /\ \A raw \in PressureInputs :
       admitDecide(store', objs', stack', maxTrackedTasks, a, meta[a], raw, now').decision
         = admitDecide(store, objs, stack, maxTrackedTasks, a, meta[a], raw, now).decision

\* C12 as stated: no admit, signalRetry or getRuntimeState made for another
\* task id changes the existence, spawnCount or retryDepth of the entry of a
\* task id, or the decision of its next admit, whatever the store capacity.
C12_TaskIsolation ==
  [][\A a \in TaskIds : CallNotFor(a) => Untouched(a)]_vars

\* C12 amended: the same for signalRetry and getRuntimeState, and for an admit
\* of a task id that has a live entry or finds fewer entries stored than the
\* capacity (its own expired entry not counted).
C12_TaskIsolationWithRoom ==
  [][\A a \in TaskIds :
       (/\ CallNotFor(a)
        /\ last'.op = "admit" =>
              \/ LiveEntry(store, last'.task, now)
              \/ Len(TTLGetStore(store, last'.task, now)) < maxTrackedTasks)
         => Untouched(a)]_vars

\* on a store with room for both, one task was admitted while the other had
\* a live entry with a dispatch counted, and that entry is still there
C12_Witness ==
  \E a \in TaskIds, b \in TaskIds :
     /\ a # b
     /\ maxTrackedTasks = Cardinality(TaskIds)
     /\ Admitted(last, b)
     /\ last.decision.type = "dispatch"
     /\ StateOf(store, objs, b).spawnCount = 1
     /\ LiveEntry(store, a, now)
     /\ StateOf(store, objs, a).spawnCount = 1
     /\ EntryOf(store, a).expiresAt < EntryOf(store, b).expiresAt

\* the ids in a list of destinations
Ids(list) == {list[i] : i \in 1..Len(list)}

\* C13: whenever admit returns dispatch, the destination dispatch was invoked
\* on is one of the resolved envelope's eligibleCandidates.
C13_DispatchToEligible ==
  (last.op = "admit" /\ last.decision.type = "dispatch")
     => last.dest \in Ids(resolve(meta[last.task].intent).eligibleCandidates)

\* C14: under an envelope without eligible candidates the distributor
\* returns null also where the strategy alone would select, and an admit
\* dispatches nothing, leaves spawnCount as it read it and, when it read
\* spawnCount < spawnBudget and retryDepth < maxRetryDepth and the pressure
\* gate does not drop, returns drop(spawn_budget_exhausted).
C14_EmptyEnvelopeNeverDispatches ==
  [][\A t \in TaskIds :
       LET envelope == resolve(meta[t].intent) IN
       (Len(envelope.eligibleCandidates) = 0 /\ Admitted(last', t))
         => /\ distributorSelect(meta[t], envelope, Eff(t), last'.pressure) = NoDest
            /\ last'.decision.type = "drop"
            /\ last'.dest = NoDest
            /\ StateOf(store', objs', t).spawnCount = Eff(t).spawnCount
            /\ (/\ Eff(t).spawnCount < meta[t].spawnBudget
                /\ Eff(t).retryDepth < meta[t].maxRetryDepth
                /\ ~(envelope.allowDrop /\ PressureSum(last'.pressure) > 27))
                 => Dropped(last', "spawn_budget_exhausted")]_vars

\* a task within both budgets, at low pressure, that the strategy alone would
\* route, was dropped under the empty envelope with no spawn counted
C14_Witness ==
  \E t \in TaskIds :
     /\ Len(resolve(meta[t].intent).eligibleCandidates) = 0
     /\ Admitted(last, t)
     /\ Dropped(last, "spawn_budget_exhausted")
     /\ PressureSum(last.pressure) < 27
     /\ StateOf(store, objs, t).spawnCount = 0
     /\ StateOf(store, objs, t).retryDepth < meta[t].maxRetryDepth
     /\ meta[t].spawnBudget >= 1
     /\ intentBasedSelect(meta[t], StateOf(store, objs, t)) # NoDest

\* C15: with a decision handler configured, every admit emits exactly one
\* event, which carries the id of the admitted task, the decision admit
\* returns and the id of the resolved envelope; signalRetry and
\* getRuntimeState emit none.
C15_OneEventPerAdmit ==
  IF last.op = "admit"
    THEN /\ Len(events) = 1
         /\ events[1].taskId = last.task
         /\ events[1].decision = last.decision
         /\ events[1].envelopeId = resolve(meta[last.task].intent).id
    ELSE events = <<>>

\* an admit that dropped for pressure under the narrow envelope emitted its event
C15_Witness ==
  /\ last.op = "admit"
  /\ Dropped(last, "pressure_exceeded")
  /\ Len(events) = 1
  /\ events[1].decision.reason = "pressure_exceeded"
  /\ events[1].envelopeId = narrowEnvelope.id

C17_EventPressureIsDecisionPressure ==
  (last.op = "admit" /\ Len(events) = 1) => events[1].pressure = last.pressure

\* C18: the number of entries of the store never exceeds the capacity it was
\* constructed with.
C18_SizeWithinCapacity == Len(ttlMap) <= ttlMaxSize

\* this step is a set of the key k
SetOf(k) == ttlOp'.op = "set" /\ ttlOp'.key = k

\* the entries of the store this step removes
Removed == { i \in 1..Len(ttlMap) : IndexOfKey(ttlMap', ttlMap[i].key) = 0 }

\* C19: a set of a new key on a store at capacity removes exactly one stored
\* entry, and no stored entry expires strictly before the removed one.
C19_EvictsNearestExpiry ==
  [][\A k \in StoreKeys :
       SetOf(k) /\ IndexOfKey(ttlMap, k) = 0 /\ Len(ttlMap) = ttlMaxSize
         => /\ Cardinality(Removed) = 1
            /\ \A i \in Removed : \A j \in 1..Len(ttlMap) :
                 ~(ttlMap[j].expiresAt < ttlMap[i].expiresAt)]_vars

\* C20: a set of a stored key, at capacity or not, removes no entry and
\* changes no other entry: the keys keep their order, and every other key
\* keeps its value and its expiry.
C20_SetOfStoredKeyKeepsOthers ==
  [][\A k \in StoreKeys :
       SetOf(k) /\ IndexOfKey(ttlMap, k) # 0
         => /\ Len(ttlMap') = Len(ttlMap)
            /\ \A i \in 1..Len(ttlMap) :
                 /\ ttlMap'[i].key = ttlMap[i].key
                 /\ ttlMap[i].key # k => ttlMap'[i] = ttlMap[i]]_vars

\* a full store of two entries after a set of its first key: a new key is
\* appended last, so the key was stored before the set
C20_Witness ==
  /\ ttlOp.op = "set"
  /\ ttlMaxSize = 2
  /\ Len(ttlMap) = 2
  /\ ttlMap[1].key = ttlOp.key
  /\ ttlMap[1].expiresAt > ttlMap[2].expiresAt

\* what this.store.get(key) gives for a key that is not stored
NoEntry == [key |-> "none", value |-> NoRef, expiresAt |-> NoRef]

\* this.store.get(k): the stored entry of the key k
EntryOfKey(s, k) == LET i == IndexOfKey(s, k) IN IF i = 0 THEN NoEntry ELSE s[i]

\* this step is a get of the key k
GetOf(k) == ttlOp'.op = "get" /\ ttlOp'.key = k

\* C21: a set stores the value with the expiry set time + TTL (the per-entry
\* TTL if given, else the default); no other step changes a stored value or
\* expiry; a get of a stored key returns the stored value and leaves the
\* store alone while the time is not past the expiry, and returns absent and
\* removes the entry once it is; a get of a key that is not stored returns
\* absent.
C21_GetUntilExpiry ==
  [][\A k \in StoreKeys :
       LET old == EntryOfKey(ttlMap, k)
           new == EntryOfKey(ttlMap', k)
       IN IF SetOf(k)
            THEN new = [key |-> k, value |-> ttlOp'.arg[1],
                        expiresAt |-> IF ttlOp'.arg[2] = NoTTL THEN now + StateTTL
                                      ELSE IF ttlOp'.arg[2] = Infinity THEN Infinity
                                      ELSE now + ttlOp'.arg[2]]
            ELSE /\ new \in {old, NoEntry}
                 /\ GetOf(k) /\ old # NoEntry =>
                      IF now > old.expiresAt
                        THEN ttlOp'.result = NoRef /\ new = NoEntry
                        ELSE ttlOp'.result = old.value /\ ttlMap' = ttlMap
                 /\ GetOf(k) /\ old = NoEntry =>
                      ttlOp'.result = NoRef /\ ttlMap' = ttlMap]_vars

\* a get that returned the stored value at the very time of the entry's expiry
C21_Witness ==
  /\ ttlOp.op = "get"
  /\ ttlOp.result # NoRef
  /\ EntryOfKey(ttlMap, ttlOp.key) # NoEntry
  /\ EntryOfKey(ttlMap, ttlOp.key).expiresAt = now

\* C22: prune removes exactly the entries whose expiry is past, leaves the
\* others unchanged and in order, and returns the number it removed.
C22_PruneRemovesExpired ==
  [][ttlOp'.op = "prune" =>
       /\ \A i \in 1..Len(ttlMap) :
            IF now > ttlMap[i].expiresAt
              THEN IndexOfKey(ttlMap', ttlMap[i].key) = 0
              ELSE EntryOfKey(ttlMap', ttlMap[i].key) = ttlMap[i]
       /\ \A i \in 1..Len(ttlMap') : EntryOfKey(ttlMap, ttlMap'[i].key) = ttlMap'[i]
       /\ ttlOp'.result = Len(ttlMap) - Len(ttlMap')]_vars

\* a prune that removed an entry and kept one that expires at this very time
C22_Witness ==
  /\ ttlOp.op = "prune"
  /\ ttlOp.result >= 1
  /\ \E i \in 1..Len(ttlMap) : ttlMap[i].expiresAt = now

\* the decision and destination of the first admit a new engine is given
FirstEver(t, p) ==
  LET d == admitDecide(<<>>, NoObjs, <<>>, maxTrackedTasks, t, meta[t],
                       <<p.memory, p.queueDepth, p.spawnSaturation>>, now)
  IN [decision |-> d.decision, dest |-> d.dest]

\* C23: an admit of a task id that has no live entry (never created, expired,
\* evicted, or gone with a replaced engine) decides as the first admit of a
\* new engine would and leaves the counts of a first admission; it dispatches
\* when spawnBudget >= 1, maxRetryDepth >= 1, the pressure does not drop and
\* the envelope has a candidate.
C23_LostEntryIsFreshTask ==
  [][\A t \in TaskIds :
       (Admitted(last', t) /\ ~LiveEntry(store, t, now)) =>
          LET envelope == resolve(meta[t].intent)
              dispatched == last'.decision.type = "dispatch"
              first == FirstEver(t, last'.pressure)
          IN /\ last'.decision = first.decision
             /\ last'.dest = first.dest
             /\ ( /\ meta[t].spawnBudget >= 1
                  /\ meta[t].maxRetryDepth >= 1
                  /\ ~shouldDropForPressure(envelope, last'.pressure)
                  /\ Len(envelope.eligibleCandidates) > 0 ) => dispatched
             /\ LiveEntry(store', t, now')
             /\ StateOf(store', objs', t).spawnCount = IF dispatched THEN 1 ELSE 0
             /\ StateOf(store', objs', t).retryDepth = 0]_vars

\* a task whose budget was used up is dispatched again before the expiry time
\* of the entry that counted it: the entry was evicted or the engine replaced
C23_Witness ==
  \E t \in TaskIds :
     /\ Admitted(last, t)
     /\ found = "lost"
     /\ last.decision.type = "dispatch"
     /\ StateOf(store, objs, t).spawnCount = 1

\* C24: every decision returned by admit and every decision carried in an
\* emitted event has type dispatch or drop, never retry or escalate.
C24_OnlyDispatchOrDrop ==
  /\ last.op = "admit" => last.decision.type \in {"dispatch", "drop"}
  /\ \A i \in 1..Len(events) : events[i].decision.type \in {"dispatch", "drop"}

\* an admit of a task with no retry depth left: where a retry or escalate
\* decision would be, the decision returned and emitted is a drop
C24_Witness ==
  /\ last.op = "admit"
  /\ Len(events) = 1
  /\ events[1].decision = last.decision
  /\ last.decision.type = "drop"
  /\ last.decision.reason = "retry_depth_exhausted"

\* C25: admit returns a decision, and raises no error, for a task of any
\* intent string in every reachable engine state.
C25_AdmitNeverThrows == last.op = "admit" => last.decision # TypeError

\* the envelope the mapping holds for the intent of task t, the default
\* envelope when the intent is absent or not a key of the mapping
MappedOrDefault(t) ==
  IF intentOrEmpty(meta[t].intent) \in DOMAIN EnvelopeMap
    THEN EnvelopeMap[intentOrEmpty(meta[t].intent)]
    ELSE defaultEnvelope

\* C26: resolve returns the mapped envelope exactly for the keys of the
\* mapping and null for every other string; admit uses the default envelope
\* exactly when the intent is absent or not a key, and the event names the
\* envelope used.
C26_ResolveIsKeyLookup ==
  \A t \in TaskIds :
     /\ envelopeResolverResolve(intentOrEmpty(meta[t].intent)) =
          IF intentOrEmpty(meta[t].intent) \in DOMAIN EnvelopeMap
            THEN EnvelopeMap[intentOrEmpty(meta[t].intent)]
            ELSE NoEnvelope
     /\ resolve(meta[t].intent) = MappedOrDefault(t)
     /\ Admitted(last, t) =>
          /\ Len(events) = 1
          /\ events[1].envelopeId = MappedOrDefault(t).id

\* no part of the envelope can be changed any more
Immutable(e) == e.supplied /\ e.frozen /\ e.listFrozen

\* C27: createMainRoutine throws when no default envelope is supplied and
\* when the supplied one is not immutable, its eligibleCandidates list
\* included; it succeeds for an envelope made by createDecisionEnvelope.
C27_ConstructionFailsFast ==
  build.engine # NotYet =>
     /\ ~build.defaultEnvelope.supplied =>
          build.engine = "Error: defaultEnvelope is required (RFC-7)"
     /\ (build.defaultEnvelope.supplied /\ ~Immutable(build.defaultEnvelope)) =>
          build.engine = "Error: defaultEnvelope must be immutable (Object.freeze)"
     /\ build.defaultEnvelope = createDecisionEnvelope => build.engine = "ok"

\* C28: composing an empty strategy list raises a configuration error.
C28_EmptyStrategyListRejected ==
  (build.composed # NotYet /\ build.strategies = <<>>) => build.composed # "ok"

\* C29: the composed select calls its members in list order, stops at the
\* first that returns non-null and returns that result; it returns null only
\* when every member was called and returned null.
C29_FirstNonNullInOrder ==
  build.selected # NotYet =>
     LET n == Len(build.consulted) IN
     /\ n <= Len(build.strategies)
     /\ build.consulted = SubSeq(build.strategies, 1, n)
     /\ \A i \in 1..(n - 1) : build.results[build.consulted[i]] = NoDest
     /\ IF build.selected = NoDest
          THEN /\ n = Len(build.strategies)
               /\ \A i \in 1..n : build.results[build.strategies[i]] = NoDest
          ELSE /\ n >= 1
               /\ build.selected = build.results[build.consulted[n]]

\* the standard stack, where the intent member gave null and the priority
\* member a result: two members were asked, penalty and random were not
C29_Witness ==
  /\ build.strategies = StandardStack
  /\ build.selected = "fast"
  /\ build.consulted = <<"intent", "priority">>
  /\ build.results["random"] # NoDest

\* dispatch invocations for task t counted before this step, none when the
\* entry that counts them is gone
DispatchesSoFar(t) == IF LiveEntry(store, t, now) THEN run[t].d ELSE 0

\* C30: an admit that returns dispatch has invoked dispatch exactly once, on
\* the primary of the group the distributor selected for the task; an admit
\* that returns drop has invoked dispatch on nothing.
C30_DispatchOnceOnPrimary ==
  [][\A t \in TaskIds :
       (Admitted(last', t) /\ last'.decision # TypeError) =>
          IF last'.decision.type = "dispatch"
            THEN /\ last'.dest # NoDest
                 /\ last'.dest = distributorSelect(meta[t], resolve(meta[t].intent),
                                                   Eff(t), last'.pressure)
                 /\ run'[t].d = DispatchesSoFar(t) + 1
            ELSE /\ last'.decision.type = "drop"
                 /\ last'.dest = NoDest
                 /\ run'[t].d = DispatchesSoFar(t)]_vars

\* the second dispatch of a critical task, invoked on the primary "fast"
C30_Witness ==
  \E t \in TaskIds :
     /\ Admitted(last, t)
     /\ last.decision.type = "dispatch"
     /\ last.dest = "fast"
     /\ run[t].d = 2

\* the envelopes that differ from e in their four flags only
FlagVariants(e) ==
  { [e EXCEPT !.allowDrop = f[1], !.allowRetry = f[2], !.allowCooperate = f[3],
              !.allowHistoryInfluence = f[4]] : f \in [1..4 -> BOOLEAN] }

C32_NoDispatchAfterRetryWhenDisabled ==
  [][\A t \in TaskIds :
       (/\ Admitted(last', t)
        /\ ~resolve(meta[t].intent).allowRetry
        /\ LiveEntry(store, t, now)
        /\ StateOf(store, objs, t).retryDepth > 0)
          => last'.decision.type # "dispatch"]_vars

C34_PrioritySelection ==
  prio.phase = "selected" =>
     LET md == prio.metadata
         rs == prio.runtimeState
         th == prio.thresholds
         declared == IF md.priority = NoPriority THEN 50 ELSE md.priority
         effective == Min(declared + Min(rs.retryDepth * 5, 20), 100)
         matches == {i \in DOMAIN th : /\ effective >= th[i].minPriority
                                       /\ PressureSum(prio.pressure) <= 3 * th[i].maxPressure}
     IN IF rs.spawnCount >= md.spawnBudget \/ rs.retryDepth >= md.maxRetryDepth
          THEN prio.selected = NoDest
          ELSE IF matches = {}
                 THEN prio.selected = prio.fallbackId
                 ELSE prio.selected =
                        th[CHOOSE i \in matches : \A j \in matches : i <= j].subRoutineId

\* d is selected before e whatever their order in subRoutineIds
Preferred(penalties, d, e, t) ==
  getEffectivePenalty(penalties, d, t) < getEffectivePenalty(penalties, e, t)

\* C35: after any sequence of penalize calls every destination's effective
\* penalty is at least 0, and a penalize call for a destination neither lowers
\* that destination's effective penalty nor makes it preferred over a
\* destination it was not preferred over before the call.
C35_OnlyNegativeBias ==
  [][/\ \A d \in TrackerIds : getEffectivePenalty(tracker'.penalties, d, now') >= 0
     /\ \A d \in TrackerIds :
          (tracker'.calls # tracker.calls /\ tracker'.op.subRoutineId = d) =>
             /\ getEffectivePenalty(tracker'.penalties, d, now')
                  >= getEffectivePenalty(tracker.penalties, d, now)
             /\ \A e \in TrackerIds \ {d} :
                  Preferred(tracker'.penalties, d, e, now')
                     => Preferred(tracker.penalties, d, e, now)]_vars

\* C36: a penalty record is not held once more than 30 minutes have passed
\* since it was recorded, and getEffectivePenalty counts only the records of
\* the last 30 minutes, whether or not penalize was called again.
C36_OldRecordsPruned ==
  \A d \in TrackerIds :
     /\ \A i \in DOMAIN tracker.penalties[d] :
          now - tracker.penalties[d][i].recordedAt <= PruneAge
     /\ getEffectivePenalty(tracker.penalties, d, now)
          = getEffectivePenaltyPruned(tracker.penalties, d, now)

\* C37: an admit that returns drop, for whichever reason, leaves the entry the
\* task has (unexpired) as it is: the same spawnCount, retryDepth and
\* lastAttemptAt and the same expiry time after the call as before it.
C37_DropKeepsEntry ==
  [][\A t \in TaskIds :
       (Admitted(last', t) /\ last'.decision.type = "drop" /\ LiveEntry(store, t, now)) =>
          /\ LiveEntry(store', t, now')
          /\ EntryOf(store', t) = EntryOf(store, t)
          /\ StateOf(store', objs', t) = StateOf(store, objs, t)]_vars

C37_Witness ==
  \E t \in TaskIds :
     /\ Admitted(last, t)
     /\ last.decision.type = "drop"
     /\ last.decision.reason = "pressure_exceeded"
     /\ found = "live"
     /\ LiveEntry(store, t, now)
     /\ StateOf(store, objs, t).spawnCount > 0
     /\ StateOf(store, objs, t).lastAttemptAt < now
     /\ EntryOf(store, t).expiresAt = now

Stored(s, key) == \E i \in 1..Len(s) : s[i].key = key

\* C38: the expiry time of a task's unexpired entry changes only in an admit
\* of the task that dispatches or in a signalRetry of the task, and then to the
\* time of the call + stateTTL; so an entry that was never retried expires
\* stateTTL after its last dispatch (or its creation), whatever dropped admits
\* came in between, and an admit made after that time of a task whose budget
\* was used up starts from a fresh zero state and dispatches when the
\* pressure allows and a destination is eligible.
C38_ExpiryOnlyExtendedByDispatchOrRetry ==
  [][\A t \in TaskIds :
       /\ (LiveEntry(store, t, now) /\ Stored(store', t)
             /\ EntryOf(store', t).expiresAt # EntryOf(store, t).expiresAt) =>
             /\ last'.task = t
             /\ \/ last'.op = "admit" /\ last'.decision.type = "dispatch"
                \/ last'.op = "signalRetry"
             /\ EntryOf(store', t).expiresAt = now' + StateTTL
       /\ (Stored(store', t) /\ StateOf(store', objs', t).retryDepth = 0) =>
             EntryOf(store', t).expiresAt
               = StateOf(store', objs', t).lastAttemptAt + StateTTL
       /\ (/\ Admitted(last', t)
           /\ Stored(store, t)
           /\ meta[t].spawnBudget >= 1
           /\ StateOf(store, objs, t).spawnCount >= meta[t].spawnBudget
           /\ StateOf(store, objs, t).retryDepth = 0
           /\ now > StateOf(store, objs, t).lastAttemptAt + StateTTL) =>
             LET dispatched == last'.decision.type = "dispatch"
                 envelope == resolve(meta[t].intent)
             IN /\ found' = "spent"
                /\ StateOf(store', objs', t).spawnCount = IF dispatched THEN 1 ELSE 0
                /\ StateOf(store', objs', t).retryDepth = 0
                /\ StateOf(store', objs', t).lastAttemptAt = now'
                /\ (/\ meta[t].maxRetryDepth >= 1
                    /\ Len(envelope.eligibleCandidates) > 0
                    /\ ~shouldDropForPressure(envelope, last'.pressure)) => dispatched]_vars

C38_Witness ==
  \E t \in TaskIds :
     /\ Admitted(last, t)
     /\ found = "spent"
     /\ last.decision.type = "dispatch"
     /\ StateOf(store, objs, t).spawnCount = 1
     /\ EntryOf(store, t).expiresAt = now + StateTTL

\* C39: what the standard stack of the four built-in strategies selects is
\* what the intent-based strategy selects, for every task, runtime state and
\* pressure; when the intent-based strategy returns null, so do the
\* priority-based, performance-penalty and random strategies.
C39_StackIsIntentBased ==
  (build.phase = "building" /\ build.strategies = StandardStack) =>
     LET intent == intentBasedSelect(build.context.metadata, build.context.runtimeState)
     IN /\ build.results["intent"] = intent
        /\ intent = NoDest => \A m \in Members : build.results[m] = NoDest
        /\ build.selected # NotYet =>
              /\ build.selected = intent
              /\ build.consulted = IF intent = NoDest THEN StandardStack ELSE <<"intent">>

C39_Witness ==
  /\ build.phase = "building"
  /\ build.strategies = StandardStack
  /\ build.selected = "default"
  /\ build.results["priority"] = "premium"
  /\ build.results["penalty"] = "b"
  /\ build.results["random"] = "a"

\* C40: on the dispatch path the dispatch handler is called while the stored
\* spawnCount does not count this dispatch yet and before any decision event;
\* the event is emitted once the incremented spawnCount is stored, so that a
\* decision handler calling getRuntimeState for the task gets a spawnCount
\* that includes the dispatch reported.
C40_DispatchThenStoreThenEvent ==
  [][\A t \in TaskIds :
       /\ (last'.op = "dispatch" /\ last'.task = t) =>
             /\ events' = <<>>
             /\ seen' = NotSeen
             /\ getRuntimeState(store', objs', t, now') # Undefined
             /\ getRuntimeState(store', objs', t, now').spawnCount = Eff(t).spawnCount
       /\ (Admitted(last', t) /\ last'.decision.type = "dispatch") =>
             LET before == IF stack = <<>> THEN Eff(t)
                           ELSE objs[t][stack[Len(stack)].ref]
             IN /\ Len(events') = 1
                /\ events'[1].taskId = t
                /\ events'[1].decision.type = "dispatch"
                /\ seen' # Undefined
                /\ seen' # NotSeen
                /\ seen'.spawnCount = before.spawnCount + 1
                /\ seen' = getRuntimeState(store', objs', t, now')]_vars

C40_Witness ==
  \E t \in TaskIds :
     /\ Admitted(last, t)
     /\ last.decision.type = "dispatch"
     /\ Len(events) = 1
     /\ seen # NotSeen
     /\ seen # Undefined
     /\ seen.spawnCount = 1
     /\ stack = <<>>
====
